---- MODULE Spec2Model ----
(***************************************************************************)
(* A model of the kriegsim simulation engine: board and terrain            *)
(* (game/board.py), units and combat rules (game/units.py), the turn       *)
(* sequencer (game/turn_manager.py), the action codec of the agent         *)
(* (game/ai_agent.py: get_valid_actions, decode_action, calculate_reward)  *)
(* and the match controller (game/game_manager.py).                        *)
(*                                                                         *)
(* The reference match is played on a 20x20 board; the model plays the     *)
(* same match on a BoardW x BoardH board, with the deployment table of     *)
(* setup_initial_units kept as it is relative to each player's edge.       *)
(***************************************************************************)
EXTENDS Integers, Sequences, FiniteSets, TLC

VARIABLES
    units,           \* GameManager.units: the list of Unit objects, creation order
    occupant,        \* Tile.occupant of every tile of GameManager.board
    terrain,         \* Tile.terrain of every tile of GameManager.board
    pending_attacks, \* Tile.pending_attacks of every tile
    current,         \* TurnManager.current
    tm_turn_count,   \* TurnManager.turn_count
    turn_count,      \* GameManager.turn_count
    game_over,       \* GameManager.game_over
    winner,          \* GameManager.winner
    turn_limit,      \* the local turn_limit of the driving loop
    pc,              \* position of the driving loop: "act", "check", "over"
    last,            \* the last operation: what ai_turn decoded and execute_action returned
    combat,          \* one combat resolution: attacker, target, the target's terrain, damage
    call             \* a call made on the engine from outside the driving loop

vars == <<units, occupant, terrain, pending_attacks, current, tm_turn_count,
          turn_count, game_over, winner, turn_limit, pc, last, combat, call>>

-----------------------------------------------------------------------------
(* Bounds of the model *)

\* Board(width, height): 20 x 20 in GameManager.__init__
BoardW == 6
BoardH == 3
\* the largest number of destroyed units in the matches decode_action is
\* called on
MaxDead == 2
\* number of terrain layouts Board.__init__ may draw (random_terrain per tile)
NumLayouts == 1
\* the driving loop's cap on turn advances (turn_limit < 100 in run_ai_game)
TurnLimit == 2

-----------------------------------------------------------------------------
(* Python helpers *)

None == -1

Abs(n) == IF n < 0 THEN 0 - n ELSE n

Max(a, b) == IF a >= b THEN a ELSE b

-----------------------------------------------------------------------------
(* board.py *)

FLAT == "flat"
HIGH_GROUND == "high_ground"
LOW_GROUND == "low_ground"
TRENCHES == "trenches"

TerrainType == {FLAT, HIGH_GROUND, LOW_GROUND, TRENCHES}

TERRAIN_MODIFIERS ==
    [t \in TerrainType |->
        CASE t = FLAT        -> [defense |-> 0,  range_bonus |-> 0, movement |-> 0]
          [] t = HIGH_GROUND -> [defense |-> 0,  range_bonus |-> 1, movement |-> 0]
          [] t = LOW_GROUND  -> [defense |-> -1, range_bonus |-> 0, movement |-> 0]
          [] t = TRENCHES    -> [defense |-> 1,  range_bonus |-> 0, movement |-> 0]]

Tiles == (0 .. BoardW - 1) \X (0 .. BoardH - 1)

is_valid_position(x, y) == 0 <= x /\ x < BoardW /\ 0 <= y /\ y < BoardH

\* Board.get_tile returns the tile, or None outside the board; a tile is
\* identified by its coordinates, and `tile is None` is ~is_valid_position
get_tile(x, y) == IF 0 <= x /\ x < BoardW /\ 0 <= y /\ y < BoardH THEN <<x, y>> ELSE None

get_distance(pos1, pos2) == Abs(pos1[1] - pos2[1]) + Abs(pos1[2] - pos2[2])

\* range(-size//2, size//2 + 1): Python's // floors, as \div does
get_area_tiles(center_x, center_y, size) ==
    { <<center_x + dx, center_y + dy>> :
        <<dx, dy>> \in { d \in (((0 - size) \div 2) .. (size \div 2))
                                \X (((0 - size) \div 2) .. (size \div 2)) :
                            is_valid_position(center_x + d[1], center_y + d[2]) } }

\* get_area_tiles stopping the ranges one short, the 2x2 area of its docstring
get_area_tiles_list_2x2(center_x, center_y, size) ==
    LET lo == (0 - size) \div 2
        n  == (size \div 2) - lo
        candidates == [i \in 1 .. n * n |->
                          <<center_x + lo + ((i - 1) \div n),
                            center_y + lo + ((i - 1) % n)>>]
    IN  SelectSeq(candidates, LAMBDA t : is_valid_position(t[1], t[2]))

\* Board.get_area_tiles: the list it returns, in the order it appends (dx
\* outer, dy inner, both over range(-size//2, size//2 + 1))
get_area_tiles_list(center_x, center_y, size) ==
    LET lo == (0 - size) \div 2
        n  == (size \div 2) + 1 - lo
        candidates == [i \in 1 .. n * n |->
                          <<center_x + lo + ((i - 1) \div n),
                            center_y + lo + ((i - 1) % n)>>]
    IN  SelectSeq(candidates, LAMBDA t : is_valid_position(t[1], t[2]))

\* Board.__init__: the width and height as given and one Tile per (x, y) of
\* range(width) x range(height), an empty range for a non-positive argument;
\* there is no raise statement and nothing in it raises
Board(width, height) ==
    [width |-> width, height |-> height,
     grid |-> (0 .. width - 1) \X (0 .. height - 1),
     raised |-> FALSE]

\* Tile.random_terrain draws every tile's terrain independently; the model
\* draws one of NumLayouts layouts, each of which holds all four kinds
TerrainOrder == <<FLAT, LOW_GROUND, TRENCHES, HIGH_GROUND>>

Layout(seed) == [t \in Tiles |-> TerrainOrder[((t[1] + 2 * t[2] + seed) % 4) + 1]]

-----------------------------------------------------------------------------
(* units.py *)

SOLDIER_SQUAD == "SOLDIER_SQUAD"
TANK == "TANK"
MORTAR_SQUAD == "MORTAR_SQUAD"

UnitType == {SOLDIER_SQUAD, TANK, MORTAR_SQUAD}

UNIT_STATS ==
    [k \in UnitType |->
        CASE k = SOLDIER_SQUAD ->
                [hp |-> 1, attack |-> 1, defense |-> 1, speed |-> 1, range |-> 2,
                 aoe |-> FALSE, delay |-> 0]
          [] k = TANK ->
                [hp |-> 1, attack |-> 5, defense |-> 1, speed |-> 1, range |-> 5,
                 aoe |-> TRUE, delay |-> 0]
          [] k = MORTAR_SQUAD ->
                [hp |-> 5, attack |-> 1, defense |-> 1, speed |-> 1, range |-> 10,
                 aoe |-> TRUE, delay |-> 1]]

max_hp(u) == UNIT_STATS[u.unit_type].hp

attack_power(u) == UNIT_STATS[u.unit_type].attack

defense_power(u, terr) ==
    IF u.unit_type = SOLDIER_SQUAD /\ terr = TRENCHES
    THEN UNIT_STATS[u.unit_type].defense + 1
    ELSE UNIT_STATS[u.unit_type].defense

\* movement_speed of a unit that covers the whole 5x5 window
movement_speed_fast(u) == UNIT_STATS[u.unit_type].speed + 3

movement_speed(u) == UNIT_STATS[u.unit_type].speed

\* attack_range without the HighGround bonus
attack_range_no_bonus(u, terr) == UNIT_STATS[u.unit_type].range

\* Unit.attack_range
attack_range(u, terr) ==
    IF terr = HIGH_GROUND
    THEN UNIT_STATS[u.unit_type].range + 1
    ELSE UNIT_STATS[u.unit_type].range

can_attack_area(u) == UNIT_STATS[u.unit_type].aoe

attack_delay(u) == UNIT_STATS[u.unit_type].delay

\* Unit.__init__ and create_unit; id is set by the game manager
create_unit(unit_type, owner, x, y, id) ==
    [unit_type |-> unit_type, owner |-> owner, x |-> x, y |-> y,
     hp |-> UNIT_STATS[unit_type].hp, has_moved |-> FALSE, has_attacked |-> FALSE,
     id |-> id]

\* can_move_to without the distance test
can_move_to_any_distance(u, x, y, occ) ==
    /\ is_valid_position(x, y)
    /\ occ[<<x, y>>] = None

\* Unit.can_move_to
can_move_to(u, x, y, occ) ==
    /\ is_valid_position(x, y)
    /\ occ[<<x, y>>] = None
    /\ Abs(u.x - x) + Abs(u.y - y) <= movement_speed(u)

\* calculate_damage without the max(0, ...) clamp
calculate_damage_unclamped(attacker, target, terr) ==
    LET defense1 == defense_power(target, terr) + TERRAIN_MODIFIERS[terr].defense
        defense2 == IF terr = LOW_GROUND THEN defense1 - 1 ELSE defense1
    IN  attack_power(attacker) - defense2

\* calculate_damage without the terrain table's defense entry
calculate_damage_no_table(attacker, target, terr) ==
    LET defense0 == defense_power(target, terr)
        defense2 == IF terr = LOW_GROUND THEN defense0 - 1 ELSE defense0
    IN  Max(0, attack_power(attacker) - defense2)

calculate_damage(attacker, target, terr) ==
    LET attack   == attack_power(attacker)
        defense0 == defense_power(target, terr)
        defense1 == defense0 + TERRAIN_MODIFIERS[terr].defense
        defense2 == IF terr = LOW_GROUND THEN defense1 - 1 ELSE defense1
    IN  Max(0, attack - defense2)


\* the Unit object a reference (its id) stands for
UnitOf(us, id) == us[id + 1]

\* move_to that does not set has_moved
move_to_units_keeps_flag(us, id, x, y) ==
    [us EXCEPT ![id + 1] = [@ EXCEPT !.x = x, !.y = y]]

\* Unit.move_to: the new position, flag and occupants; no legality check
move_to_units(us, id, x, y) ==
    [us EXCEPT ![id + 1] = [@ EXCEPT !.x = x, !.y = y, !.has_moved = TRUE]]

\* move_to that claims the new tile and leaves the old tile's occupant
move_to_occupant_keeps_old(us, occ, id, x, y) ==
    IF is_valid_position(x, y) THEN [occ EXCEPT ![get_tile(x, y)] = id] ELSE occ

move_to_occupant(us, occ, id, x, y) ==
    LET u        == UnitOf(us, id)
        old_tile == get_tile(u.x, u.y)
        new_tile == get_tile(x, y)
        occ1     == IF is_valid_position(u.x, u.y)
                    THEN [occ EXCEPT ![old_tile] = None] ELSE occ
    IN  IF is_valid_position(x, y) THEN [occ1 EXCEPT ![new_tile] = id] ELSE occ1

\* the tiles an attack of u on (target_x, target_y) looks at
affected_tiles(u, target_x, target_y) ==
    IF can_attack_area(u)
    THEN get_area_tiles(target_x, target_y, 2)
    ELSE IF is_valid_position(target_x, target_y)
         THEN {get_tile(target_x, target_y)} ELSE {}

\* attack_target without the test of the occupant's owner
attack_target_any_owner(us, occ, id, target_x, target_y) ==
    LET u == UnitOf(us, id)
    IN  { <<t[1], t[2], calculate_damage(u, UnitOf(us, occ[t]), terrain[t])>> :
            t \in { tt \in affected_tiles(u, target_x, target_y) : occ[tt] # None } }

\* Unit.attack_target: the (x, y, damage) results, one per affected tile
\* that holds an occupant of the other owner
attack_target(us, occ, id, target_x, target_y) ==
    LET u == UnitOf(us, id)
    IN  { <<t[1], t[2], calculate_damage(u, UnitOf(us, occ[t]), terrain[t])>> :
            t \in { tt \in affected_tiles(u, target_x, target_y) :
                      /\ occ[tt] # None
                      /\ UnitOf(us, occ[tt]).owner # u.owner } }

\* reset_turn that also restores the unit's hp to its maximum
reset_turn_restores_hp(u) ==
    [u EXCEPT !.has_moved = FALSE, !.has_attacked = FALSE,
              !.hp = UNIT_STATS[u.unit_type].hp]

\* reset_turn that forgets has_attacked
reset_turn_keeps_attacked(u) == [u EXCEPT !.has_moved = FALSE]

\* Unit.reset_turn
reset_turn(u) == [u EXCEPT !.has_moved = FALSE, !.has_attacked = FALSE]

-----------------------------------------------------------------------------
(* ai_agent.py: the action codec *)

\* the action records of decode_action; Raise stands for an IndexError
NoOp == [type |-> "noop", unit |-> None, target |-> <<0, 0>>]

Raise == [type |-> "raise", unit |-> None, target |-> <<0, 0>>]

Move(id, x, y) == [type |-> "move", unit |-> id, target |-> <<x, y>>]

Attack(id, x, y) == [type |-> "attack", unit |-> id, target |-> <<x, y>>]

\* my_units without the test u.owner == player_id
my_units_any_owner(us, p) == SelectSeq(us, LAMBDA u : u.hp > 0)

\* my_units without the test u.hp > 0
my_units_with_dead(us, p) == SelectSeq(us, LAMBDA u : u.owner = p)

\* my_units = [u for u in game_state.units if u.owner == player_id and u.hp > 0]
my_units(us, p) == SelectSeq(us, LAMBDA u : u.owner = p /\ u.hp > 0)

\* the k-th (from 0) non-center offset of the 5x5 window, dx outer, dy inner
MoveOffset(k) ==
    LET j == IF k < 12 THEN k ELSE k + 1
    IN  <<(j \div 5) - 2, (j % 5) - 2>>

\* decode_action: actions_per_unit
actions_per_unit == 25 + (BoardW * BoardH)

\* get_valid_actions advancing action_id by two more than it does over a
\* unit's block
BlockAdvanceWide(u) ==
    IF ~u.has_moved /\ ~u.has_attacked
    THEN 26 + (BoardW * BoardH)
    ELSE 27 + (BoardW * BoardH)

\* get_valid_actions: what action_id advances by over one unit's block
BlockAdvance(u) ==
    IF ~u.has_moved /\ ~u.has_attacked
    THEN 24 + (BoardW * BoardH)
    ELSE 25 + (BoardW * BoardH)

\* get_valid_actions: the value of action_id when the loop reaches slot i (from 0)
RECURSIVE BlockBase(_, _)
BlockBase(mu, i) ==
    IF i = 0 THEN 0 ELSE BlockBase(mu, i - 1) + BlockAdvance(mu[i])

\* get_valid_actions: the id the loop holds at move offset k of slot i
MoveId(mu, i, k) == BlockBase(mu, i) + k

\* get_valid_actions: the id the loop holds at attack target (x, y) of slot i
\* (x is the outer loop, y the inner one)
AttackId(mu, i, x, y) == BlockBase(mu, i) + 24 + (x * BoardH) + y

\* get_valid_actions: the move offsets of slot i that are appended
ValidMoves(mu, i, occ) ==
    LET u == mu[i + 1]
    IN  IF ~u.has_moved /\ ~u.has_attacked
        THEN { k \in 0 .. 23 :
                 can_move_to(u, u.x + MoveOffset(k)[1], u.y + MoveOffset(k)[2], occ) }
        ELSE {}

\* get_valid_actions: the attack targets of slot i that are appended
ValidTargets(us, mu, i, occ, p) ==
    LET u == mu[i + 1]
    IN  IF ~u.has_moved /\ ~u.has_attacked
        THEN { t \in Tiles :
                 /\ Abs(u.x - t[1]) + Abs(u.y - t[2])
                        <= attack_range(u, terrain[<<u.x, u.y>>])
                 /\ occ[t] # None
                 /\ UnitOf(us, occ[t]).owner # p }
        ELSE {}

\* get_valid_actions without the [0] fallback
EnumeratedActions(us, occ, p) ==
    LET mu == my_units(us, p)
    IN  UNION { { MoveId(mu, i, k) : k \in ValidMoves(mu, i, occ) }
                  \cup { AttackId(mu, i, t[1], t[2]) : t \in ValidTargets(us, mu, i, occ, p) } :
                i \in 0 .. Len(mu) - 1 }

\* get_valid_actions without the [0] fallback of its return statement
get_valid_actions_no_fallback(us, occ, p) == EnumeratedActions(us, occ, p)

\* get_valid_actions: valid_actions if valid_actions else [0]
get_valid_actions(us, occ, p) ==
    LET valid_actions == EnumeratedActions(us, occ, p)
    IN  IF valid_actions # {} THEN valid_actions ELSE {0}

\* decode_action reading the attack sub-block as get_valid_actions writes
\* it, x * height + y
decode_action_column_major(action, us, p) ==
    LET mu           == my_units(us, p)
        n            == Len(mu)
        unit_idx     == action \div actions_per_unit
        local_action == action % actions_per_unit
    IN  IF n = 0 THEN NoOp
        ELSE IF unit_idx >= n THEN NoOp
        ELSE IF unit_idx < 0 - n THEN Raise
        ELSE LET unit == mu[IF unit_idx >= 0 THEN unit_idx + 1 ELSE n + unit_idx + 1]
             IN  IF local_action < 25
                 THEN IF local_action < 24
                      THEN Move(unit.id,
                                unit.x + MoveOffset(local_action)[1],
                                unit.y + MoveOffset(local_action)[2])
                      ELSE NoOp
                 ELSE LET attack_action == local_action - 25
                      IN  Attack(unit.id,
                                 attack_action \div BoardH,
                                 attack_action % BoardH)

\* decode_action without its last line `return {'type': 'noop'}`: local
\* action 24 falls off the end, and the caller's action['type'] raises
decode_action_no_final_return(action, us, p) ==
    LET mu           == my_units(us, p)
        n            == Len(mu)
        unit_idx     == action \div actions_per_unit
        local_action == action % actions_per_unit
    IN  IF n = 0 THEN NoOp
        ELSE IF unit_idx >= n THEN NoOp
        ELSE IF unit_idx < 0 - n THEN Raise
        ELSE LET unit == mu[IF unit_idx >= 0 THEN unit_idx + 1 ELSE n + unit_idx + 1]
             IN  IF local_action < 25
                 THEN IF local_action < 24
                      THEN Move(unit.id,
                                unit.x + MoveOffset(local_action)[1],
                                unit.y + MoveOffset(local_action)[2])
                      ELSE Raise
                 ELSE LET attack_action == local_action - 25
                      IN  Attack(unit.id,
                                 attack_action % BoardW,
                                 attack_action \div BoardW)

\* my_units[unit_idx]: Python counts a negative index from the end of the
\* list and raises IndexError below -len
decode_action(action, us, p) ==
    LET mu           == my_units(us, p)
        n            == Len(mu)
        unit_idx     == action \div actions_per_unit
        local_action == action % actions_per_unit
    IN  IF n = 0 THEN NoOp
        ELSE IF unit_idx >= n THEN NoOp
        ELSE IF unit_idx < 0 - n THEN Raise
        ELSE LET unit == mu[IF unit_idx >= 0 THEN unit_idx + 1 ELSE n + unit_idx + 1]
             IN  IF local_action < 25
                 THEN IF local_action < 24
                      THEN Move(unit.id,
                                unit.x + MoveOffset(local_action)[1],
                                unit.y + MoveOffset(local_action)[2])
                      ELSE NoOp
                 ELSE LET attack_action == local_action - 25
                      IN  Attack(unit.id,
                                 attack_action % BoardW,
                                 attack_action \div BoardW)

\* calculate_reward without the bonus for strategic positions
calculate_reward_no_terrain(us, occ, action, player_id) ==
    IF action.type = "attack"
    THEN LET target_tile == get_tile(action.target[1], action.target[2])
         IN  IF is_valid_position(action.target[1], action.target[2])
                    /\ occ[target_tile] # None
                    /\ UnitOf(us, occ[target_tile]).owner # player_id
             THEN LET enemy_unit == UnitOf(us, occ[target_tile])
                      damage == calculate_damage(UnitOf(us, action.unit), enemy_unit,
                                                 terrain[target_tile])
                  IN  (damage * 20) + (IF damage >= enemy_unit.hp THEN 100 ELSE 0)
             ELSE 0
    ELSE IF action.type = "move"
    THEN LET target_pos == action.target
             close == \E i \in 1 .. Len(us) :
                         /\ us[i].owner # player_id
                         /\ us[i].hp > 0
                         /\ Abs(target_pos[1] - us[i].x) + Abs(target_pos[2] - us[i].y) < 5
         IN  2 + (IF close THEN 10 ELSE 0)
    ELSE 0

\* calculate_reward, on the state execute_action has produced; the rewards
\* are whole numbers of the float the code returns
calculate_reward(us, occ, action, player_id) ==
    IF action.type = "attack"
    THEN LET target_tile == get_tile(action.target[1], action.target[2])
         IN  IF is_valid_position(action.target[1], action.target[2])
                    /\ occ[target_tile] # None
                    /\ UnitOf(us, occ[target_tile]).owner # player_id
             THEN LET enemy_unit == UnitOf(us, occ[target_tile])
                      damage == calculate_damage(UnitOf(us, action.unit), enemy_unit,
                                                 terrain[target_tile])
                  IN  (damage * 20) + (IF damage >= enemy_unit.hp THEN 100 ELSE 0)
             ELSE 0
    ELSE IF action.type = "move"
    THEN LET target_pos == action.target
             close == \E i \in 1 .. Len(us) :
                         /\ us[i].owner # player_id
                         /\ us[i].hp > 0
                         /\ Abs(target_pos[1] - us[i].x) + Abs(target_pos[2] - us[i].y) < 5
             terr == terrain[get_tile(target_pos[1], target_pos[2])]
         IN  2 + (IF close THEN 10 ELSE 0)
               + (IF terr = HIGH_GROUND THEN 8 ELSE IF terr = TRENCHES THEN 5 ELSE 0)
    ELSE 0

-----------------------------------------------------------------------------
(* game_manager.py *)

\* setup_initial_units: the deployment table. The 20x20 table is
\*   player 0: (S,1,5) (S,2,6) (S,1,7) (T,0,6) (M,0,10)
\*   player 1: (S,18,5) (S,17,6) (S,18,7) (T,19,6) (M,19,10)
\* kept here with the columns counted from each player's edge, rows 5..7
\* as rows 0..2 and the mortars' row 10 as the last row
player0_units ==
    << <<SOLDIER_SQUAD, 1, 0>>,
       <<SOLDIER_SQUAD, 2, 1>>,
       <<SOLDIER_SQUAD, 1, 2>>,
       <<TANK, 0, 1>>,
       <<MORTAR_SQUAD, 0, BoardH - 1>> >>

player1_units ==
    << <<SOLDIER_SQUAD, BoardW - 2, 0>>,
       <<SOLDIER_SQUAD, BoardW - 3, 1>>,
       <<SOLDIER_SQUAD, BoardW - 2, 2>>,
       <<TANK, BoardW - 1, 1>>,
       <<MORTAR_SQUAD, BoardW - 1, BoardH - 1>> >>

\* setup_initial_units: self.units after both loops (unit.id = len(self.units))
InitialUnits ==
    [i \in 1 .. Len(player0_units) + Len(player1_units) |->
        IF i <= Len(player0_units)
        THEN create_unit(player0_units[i][1], 0, player0_units[i][2],
                         player0_units[i][3], i - 1)
        ELSE LET e == player1_units[i - Len(player0_units)]
             IN  create_unit(e[1], 1, e[2], e[3], i - 1)]

\* setup_initial_units: the occupants of a new board after both loops (a
\* later unit of the table overwrites an earlier one on the same tile)
InitialOccupant ==
    [t \in Tiles |->
        LET here == { i \in 1 .. Len(InitialUnits) :
                        InitialUnits[i].x = t[1] /\ InitialUnits[i].y = t[2] }
        IN  IF here = {} THEN None
            ELSE InitialUnits[CHOOSE i \in here : \A j \in here : j <= i].id]

max_turns == 200

\* check_victory_conditions naming the eliminated player as the winner
check_victory_conditions_names_loser(us, tc) ==
    LET alive0 == Len(my_units(us, 0))
        alive1 == Len(my_units(us, 1))
    IN  IF alive0 = 0 THEN 0
        ELSE IF alive1 = 0 THEN 1
        ELSE IF tc >= max_turns
             THEN IF alive0 > alive1 THEN 0
                  ELSE IF alive1 > alive0 THEN 1
                  ELSE None
             ELSE None

\* check_victory_conditions without the tie-break at the turn-count ceiling
check_victory_conditions_no_tiebreak(us, tc) ==
    IF Len(my_units(us, 0)) = 0 THEN 1
    ELSE IF Len(my_units(us, 1)) = 0 THEN 0
    ELSE None

\* check_victory_conditions: the winner, or None
check_victory_conditions(us, tc) ==
    LET alive0 == Len(my_units(us, 0))
        alive1 == Len(my_units(us, 1))
    IN  IF alive0 = 0 THEN 1
        ELSE IF alive1 = 0 THEN 0
        ELSE IF tc >= max_turns
             THEN IF alive0 > alive1 THEN 0
                  ELSE IF alive1 > alive0 THEN 1
                  ELSE None
             ELSE None

\* execute_action, attack branch: the guard `distance <= attack_range and
\* not unit.has_attacked`
attack_allowed(us, action) ==
    LET unit == UnitOf(us, action.unit)
    IN  /\ Abs(unit.x - action.target[1]) + Abs(unit.y - action.target[2])
              <= attack_range(unit, terrain[get_tile(unit.x, unit.y)])
        /\ ~unit.has_attacked

\* the damage loop without the max(0, ...) clamp on the hp
apply_damage_unclamped(v, occ, damage_results) ==
    LET hits == { r \in damage_results : occ[<<r[1], r[2]>>] = v.id }
    IN  IF hits = {} THEN v
        ELSE LET r == CHOOSE r \in hits : TRUE
             IN  [v EXCEPT !.hp = v.hp - r[3]]

\* execute_action, attack branch: the hp of unit v after the damage loop
\* over damage_results (every result names another tile, so another unit)
apply_damage(v, occ, damage_results) ==
    LET hits == { r \in damage_results : occ[<<r[1], r[2]>>] = v.id }
    IN  IF hits = {} THEN v
        ELSE LET r == CHOOSE r \in hits : TRUE
             IN  [v EXCEPT !.hp = Max(0, v.hp - r[3])]

\* the damage loop without `target_tile.occupant = None`
remove_destroyed_never(us1, occ, damage_results) == occ

\* execute_action, attack branch: the occupants after the damage loop
\* (`if target_unit.hp <= 0: target_tile.occupant = None`), us1 being the
\* units after it
remove_destroyed(us1, occ, damage_results) ==
    [t \in Tiles |->
        IF /\ \E r \in damage_results : <<r[1], r[2]>> = t
           /\ occ[t] # None
           /\ UnitOf(us1, occ[t]).hp <= 0
        THEN None ELSE occ[t]]

\* execute_action: the units, the occupants and the reward after the call,
\* with the damage_results it applied and whether a branch's guard held
execute_action(action, us, occ, current_player) ==
    IF action.type = "move"
         /\ can_move_to(UnitOf(us, action.unit), action.target[1], action.target[2], occ)
    THEN LET us1  == move_to_units(us, action.unit, action.target[1], action.target[2])
             occ1 == move_to_occupant(us, occ, action.unit,
                                      action.target[1], action.target[2])
         IN  [units |-> us1, occupant |-> occ1, damage_results |-> {},
              resolved |-> TRUE,
              reward |-> calculate_reward(us1, occ1, action, current_player)]
    ELSE IF action.type = "attack" /\ attack_allowed(us, action)
    THEN LET damage_results == attack_target(us, occ, action.unit,
                                             action.target[1], action.target[2])
             us1  == [i \in 1 .. Len(us) |->
                        IF us[i].id = action.unit
                        THEN [us[i] EXCEPT !.has_attacked = TRUE]
                        ELSE apply_damage(us[i], occ, damage_results)]
             occ1 == remove_destroyed(us1, occ, damage_results)
         IN  [units |-> us1, occupant |-> occ1, damage_results |-> damage_results,
              resolved |-> TRUE,
              reward |-> calculate_reward(us1, occ1, action, current_player)]
    ELSE [units |-> us, occupant |-> occ, damage_results |-> {}, resolved |-> FALSE,
          reward |-> 0]

\* execute_action raises where it dereferences None: `current_tile.terrain`
\* of an attacker that stands on no tile of the board (can_move_to tests
\* is_valid_position first and attack_target tests `if tile`, so a target
\* off the board raises nothing)
execute_action_raises(action, us) ==
    /\ action.type = "attack"
    /\ ~is_valid_position(UnitOf(us, action.unit).x, UnitOf(us, action.unit).y)

\* reset_units_turn_state
reset_units_turn_state(us) ==
    [i \in 1 .. Len(us) |-> IF us[i].hp > 0 THEN reset_turn(us[i]) ELSE us[i]]

-----------------------------------------------------------------------------
(* The state machine *)

\* last: the operation (op), the type and unit of the action decode_action
\* returned, whether execute_action took the action's branch (resolved), the
\* reward it returned and the damage_results of attack_target
NoLast == [op |-> "none", type |-> "noop", unit |-> None, resolved |-> FALSE,
           reward |-> 0, damage_results |-> {}]

\* no combat resolution outside a match is in progress
NoCombat == [phase |-> "none"]

\* no call has been made from outside the driving loop
NoCall == [op |-> "none", type |-> "noop", unit |-> None, target |-> <<0, 0>>,
           resolved |-> FALSE, reward |-> 0, damage_results |-> {}]

\* GameManager.__init__ (and reset_game): a new board and the deployment
Init ==
    /\ units = InitialUnits
    /\ occupant = InitialOccupant
    /\ \E seed \in 0 .. NumLayouts - 1 : terrain = Layout(seed)
    /\ pending_attacks = [t \in Tiles |-> <<>>]
    /\ current = 0
    /\ tm_turn_count = 0
    /\ turn_count = 0
    /\ game_over = FALSE
    /\ winner = None
    /\ turn_limit = 0
    /\ pc = "act"
    /\ last = NoLast
    /\ combat = NoCombat
    /\ call = NoCall

\* the loop condition letting one more advance through
LoopRunsOneMore == pc = "act" /\ ~game_over /\ turn_limit < TurnLimit + 1

\* the loop condition of run_ai_game: not self.game_over and turn_limit < 100
LoopRuns == pc = "act" /\ ~game_over /\ turn_limit < TurnLimit

\* decode_action(idx) followed by execute_action
Perform(op, idx) ==
    LET action == decode_action(idx, units, current)
        r      == execute_action(action, units, occupant, current)
    IN  /\ action.type # "raise"
        /\ units' = r.units
        /\ occupant' = r.occupant
        /\ last' = [op |-> op, type |-> action.type, unit |-> action.unit,
                    resolved |-> r.resolved, reward |-> r.reward,
                    damage_results |-> r.damage_results]
        /\ pc' = "check"
        /\ UNCHANGED <<terrain, pending_attacks, current, tm_turn_count, turn_count,
                       game_over, winner, turn_limit, combat, call>>

\* ai_turn: the agent chooses among get_valid_actions
AiTurn ==
    /\ LoopRuns
    /\ \E idx \in get_valid_actions(units, occupant, current) : Perform("ai_turn", idx)

\* WarGameNet: the output has one block per unit slot, five slots
NumSlots == 5

\* a policy that answers with any index of the action space (and the first
\* index beyond it), decoded and executed as in ai_turn
ActionSpace == 0 .. (NumSlots * actions_per_unit)

PolicyTurn ==
    /\ LoopRuns
    /\ \E idx \in ActionSpace : Perform("policy", idx)

\* the driving loop after ai_turn when check_victory_conditions names a winner
DeclareWinner ==
    /\ pc = "check"
    /\ check_victory_conditions(units, turn_count) # None
    /\ game_over' = TRUE
    /\ winner' = check_victory_conditions(units, turn_count)
    /\ pc' = "over"
    /\ last' = [NoLast EXCEPT !.op = "winner"]
    /\ UNCHANGED <<units, occupant, terrain, pending_attacks, current, tm_turn_count,
                   turn_count, turn_limit, combat, call>>

\* next_turn that counts every advance (as TurnManager.turn_count does)
NextTurnCountsEveryAdvance ==
    /\ pc = "check"
    /\ check_victory_conditions(units, turn_count) = None
    /\ units' = reset_units_turn_state(units)
    /\ current' = (current + 1) % 2
    /\ tm_turn_count' = tm_turn_count + 1
    /\ turn_count' = turn_count + 1
    /\ turn_limit' = turn_limit + 1
    /\ pc' = "act"
    /\ last' = [op |-> "next_turn", type |-> "noop", unit |-> None, resolved |-> FALSE,
                reward |-> 0, damage_results |-> {}]
    /\ UNCHANGED <<occupant, terrain, pending_attacks, game_over, winner, combat, call>>

\* the driving loop advancing the turn whatever check_victory_conditions says
NextTurnUnchecked ==
    /\ pc = "check"
    /\ units' = reset_units_turn_state(units)
    /\ current' = (current + 1) % 2
    /\ tm_turn_count' = tm_turn_count + 1
    /\ turn_count' = IF (current + 1) % 2 = 0 THEN turn_count + 1 ELSE turn_count
    /\ turn_limit' = turn_limit + 1
    /\ pc' = "act"
    /\ last' = [NoLast EXCEPT !.op = "next_turn"]
    /\ UNCHANGED <<occupant, terrain, pending_attacks, game_over, winner, combat, call>>

\* TurnManager.next_turn without the `% len(self.players)`
NextTurnNoWrap ==
    /\ pc = "check"
    /\ check_victory_conditions(units, turn_count) = None
    /\ units' = reset_units_turn_state(units)
    /\ current' = current + 1
    /\ tm_turn_count' = tm_turn_count + 1
    /\ turn_count' = IF current + 1 = 0 THEN turn_count + 1 ELSE turn_count
    /\ turn_limit' = turn_limit + 1
    /\ pc' = "act"
    /\ last' = [NoLast EXCEPT !.op = "next_turn"]
    /\ UNCHANGED <<occupant, terrain, pending_attacks, game_over, winner, combat, call>>

\* GameManager.next_turn, with TurnManager.next_turn, and turn_limit += 1
NextTurn ==
    /\ pc = "check"
    /\ check_victory_conditions(units, turn_count) = None
    /\ units' = reset_units_turn_state(units)
    /\ current' = (current + 1) % 2
    /\ tm_turn_count' = tm_turn_count + 1
    /\ turn_count' = IF (current + 1) % 2 = 0 THEN turn_count + 1 ELSE turn_count
    /\ turn_limit' = turn_limit + 1
    /\ pc' = "act"
    /\ last' = [NoLast EXCEPT !.op = "next_turn"]
    /\ UNCHANGED <<occupant, terrain, pending_attacks, game_over, winner, combat, call>>

\* run_ai_game after the loop: if turn_limit >= 100: self.game_over = True
TurnLimitReached ==
    /\ pc = "act"
    /\ ~game_over
    /\ turn_limit >= TurnLimit
    /\ game_over' = TRUE
    /\ pc' = "over"
    /\ last' = [NoLast EXCEPT !.op = "turn_limit"]
    /\ UNCHANGED <<units, occupant, terrain, pending_attacks, current, tm_turn_count,
                   turn_count, winner, turn_limit, combat, call>>

\* reset_game, and the driving loop's turn_limit = 0: run_ai_game resets at
\* the start of every game (the first one on the newly built match, the
\* others after a game has ended), the visual loop on key R when game_over
ResetGame ==
    /\ pc = "over" \/ last.op = "none"
    /\ units' = InitialUnits
    /\ occupant' = InitialOccupant
    /\ \E seed \in 0 .. NumLayouts - 1 : terrain' = Layout(seed)
    /\ pending_attacks' = [t \in Tiles |-> <<>>]
    /\ current' = 0
    /\ tm_turn_count' = 0
    /\ turn_count' = 0
    /\ game_over' = FALSE
    /\ winner' = None
    /\ turn_limit' = 0
    /\ pc' = "act"
    /\ last' = [NoLast EXCEPT !.op = "reset"]
    /\ UNCHANGED <<combat, call>>

Next ==
    \/ AiTurn
    \/ PolicyTurn
    \/ DeclareWinner
    \/ NextTurn
    \/ TurnLimitReached
    \/ ResetGame

Spec == Init /\ [][Next]_vars

\* the control of run_ai_game moving on: ai_turn returns and the victory
\* check follows, the check ends in a break or in next_turn, the loop is left
\* at the cap, the next game starts
LoopAdvances ==
    \/ LoopRuns /\ pc' = "check"
    \/ pc = "check" /\ pc' \in {"act", "over"}
    \/ pc = "act" /\ ~game_over /\ turn_limit >= TurnLimit /\ pc' = "over"
    \/ pc = "over" /\ pc' = "act"

\* run_ai_game as a running program: a sequential loop, whose control does
\* not stay at a statement forever
SpecTermination == Init /\ [][Next]_vars /\ WF_pc(LoopAdvances)

-----------------------------------------------------------------------------
(* One combat resolution: calculate_damage applied to a target's hp, for   *)
(* every attacker kind, target kind, target hp and terrain                  *)

\* an attacker of player 0 and a target of player 1 of any kind, the target
\* with any hp it can have, standing on any terrain; the match is as built
InitCombat ==
    /\ units = InitialUnits
    /\ occupant = InitialOccupant
    /\ terrain = Layout(0)
    /\ pending_attacks = [t \in Tiles |-> <<>>]
    /\ current = 0
    /\ tm_turn_count = 0
    /\ turn_count = 0
    /\ game_over = FALSE
    /\ winner = None
    /\ turn_limit = 0
    /\ pc = "act"
    /\ last = NoLast
    /\ call = NoCall
    /\ \E ak \in UnitType, dk \in UnitType, terr \in TerrainType :
          \E hp \in 1 .. UNIT_STATS[dk].hp :
             combat = [phase |-> "ready",
                       attacker |-> create_unit(ak, 0, 0, 0, 0),
                       target |-> [create_unit(dk, 1, 1, 0, 1) EXCEPT !.hp = hp],
                       terrain |-> terr,
                       damage |-> 0]

\* damage = attacker.calculate_damage(target, terrain), then
\* target.hp = max(0, target.hp - damage), as in execute_action's damage loop
ResolveCombat ==
    /\ combat.phase = "ready"
    /\ LET damage == calculate_damage(combat.attacker, combat.target, combat.terrain)
       IN  combat' = [combat EXCEPT !.phase = "resolved",
                                    !.damage = damage,
                                    !.target.hp = Max(0, @ - damage)]
    /\ UNCHANGED <<units, occupant, terrain, pending_attacks, current, tm_turn_count,
                   turn_count, game_over, winner, turn_limit, pc, last, call>>

NextCombat == ResolveCombat

SpecCombat == InitCombat /\ [][NextCombat]_vars

-----------------------------------------------------------------------------
(* Victory evaluation: the driving loop's check after ai_turn, in matches   *)
(* that have gone on to the turn-count ceiling and have had casualties      *)

\* the turn counters the evaluation is tried at, around max_turns
TurnCounts == {0, max_turns - 1, max_turns, max_turns + 1}

\* the units of the deployment with those named in dead destroyed
Casualties(dead) ==
    [i \in 1 .. Len(InitialUnits) |->
        IF InitialUnits[i].id \in dead
        THEN [InitialUnits[i] EXCEPT !.hp = 0] ELSE InitialUnits[i]]

\* ai_turn has returned: any casualties that leave the acting player a live
\* unit (an attack harms the other player's units only), any turn counter
InitVictory ==
    /\ \E dead \in SUBSET { InitialUnits[i].id : i \in 1 .. Len(InitialUnits) } :
          /\ units = Casualties(dead)
          /\ occupant = [t \in Tiles |->
                            IF InitialOccupant[t] \in dead
                            THEN None ELSE InitialOccupant[t]]
    /\ current \in {0, 1}
    /\ Len(my_units(units, current)) > 0
    /\ turn_count \in TurnCounts
    /\ terrain = Layout(0)
    /\ pending_attacks = [t \in Tiles |-> <<>>]
    /\ tm_turn_count = 0
    /\ game_over = FALSE
    /\ winner = None
    /\ turn_limit = 0
    /\ pc = "check"
    /\ last = [NoLast EXCEPT !.op = "ai_turn"]
    /\ combat = NoCombat
    /\ call = NoCall

\* winner = self.check_victory_conditions(), then either branch of the
\* driving loop
NextVictory ==
    \/ DeclareWinner
    \/ NextTurn

SpecVictory == InitVictory /\ [][NextVictory]_vars

-----------------------------------------------------------------------------
(* Direct calls: after ai_turn has returned (or done nothing), a caller     *)
(* asks the engine for one more operation of a live unit of the acting      *)
(* player, with any target on the board or one tile off it, or resets the   *)
(* match, which the driving loop may have declared won                      *)

CallTargets == (-1 .. BoardW) \X (-1 .. BoardH)

\* the ids of the live units of the acting player
CallUnits == { units[i].id : i \in { j \in 1 .. Len(units) :
                                       units[j].owner = current /\ units[j].hp > 0 } }

\* execute_action(action) called with a move or an attack
Execute(action) ==
    LET r == execute_action(action, units, occupant, current)
    IN  /\ pc = "check"
        /\ call.op = "none"
        /\ units' = r.units
        /\ occupant' = r.occupant
        /\ call' = [op |-> "execute_action", type |-> action.type, unit |-> action.unit,
                    target |-> action.target, resolved |-> r.resolved,
                    reward |-> r.reward, damage_results |-> r.damage_results]
        /\ UNCHANGED <<terrain, pending_attacks, current, tm_turn_count, turn_count,
                       game_over, winner, turn_limit, pc, last, combat>>

ExecuteMove ==
    \E id \in CallUnits, t \in CallTargets : Execute(Move(id, t[1], t[2]))

ExecuteAttack ==
    \E id \in CallUnits, t \in CallTargets : Execute(Attack(id, t[1], t[2]))

\* unit.move_to(x, y, board) called without can_move_to
DirectMoveTo ==
    \E id \in CallUnits, t \in CallTargets :
        /\ pc = "check"
        /\ call.op = "none"
        /\ units' = move_to_units(units, id, t[1], t[2])
        /\ occupant' = move_to_occupant(units, occupant, id, t[1], t[2])
        /\ call' = [NoCall EXCEPT !.op = "move_to", !.type = "move", !.unit = id,
                                  !.target = t]
        /\ UNCHANGED <<terrain, pending_attacks, current, tm_turn_count, turn_count,
                       game_over, winner, turn_limit, pc, last, combat>>

\* reset_game that keeps the board and sets the deployment on it
DirectResetKeepsBoard ==
    /\ call.op = "none"
    /\ units' = InitialUnits
    /\ occupant' = [t \in Tiles |->
                       IF InitialOccupant[t] # None THEN InitialOccupant[t] ELSE occupant[t]]
    /\ current' = 0
    /\ tm_turn_count' = 0
    /\ turn_count' = 0
    /\ game_over' = FALSE
    /\ winner' = None
    /\ call' = [NoCall EXCEPT !.op = "reset_game"]
    /\ UNCHANGED <<terrain, pending_attacks, turn_limit, pc, last, combat>>

\* reset_game() called at any point of a match, finished or not; the driving
\* loop's own variables are not its to change
DirectReset ==
    /\ call.op = "none"
    /\ units' = InitialUnits
    /\ occupant' = InitialOccupant
    /\ \E seed \in 0 .. NumLayouts - 1 : terrain' = Layout(seed)
    /\ pending_attacks' = [t \in Tiles |-> <<>>]
    /\ current' = 0
    /\ tm_turn_count' = 0
    /\ turn_count' = 0
    /\ game_over' = FALSE
    /\ winner' = None
    /\ call' = [NoCall EXCEPT !.op = "reset_game"]
    /\ UNCHANGED <<turn_limit, pc, last, combat>>

NextCall ==
    \/ PolicyTurn
    \/ DeclareWinner
    \/ ExecuteMove
    \/ ExecuteAttack
    \/ DirectMoveTo
    \/ DirectReset

SpecCall == Init /\ [][NextCall]_vars

-----------------------------------------------------------------------------
(* The board: Board(width, height) called with any dimensions, positive or  *)
(* not, and the match's board asked for a tile or for an area                *)

\* the widths and heights a board is asked for
BoardDims == (0 - BoardW) .. BoardW

\* Board(width, height): the call records the object it returned
ConstructBoard ==
    \E width \in BoardDims, height \in BoardDims :
        /\ call.op = "none"
        /\ call' = [op |-> "Board", board |-> Board(width, height)]
        /\ UNCHANGED <<units, occupant, terrain, pending_attacks, current, tm_turn_count,
                       turn_count, game_over, winner, turn_limit, pc, last, combat>>

\* the coordinates the board is asked about: the board and two tiles around it
QueryPositions == (-2 .. BoardW + 1) \X (-2 .. BoardH + 1)

\* board.get_tile(x, y)
GetTile ==
    \E pos \in QueryPositions :
        /\ call.op = "none"
        /\ call' = [op |-> "get_tile", pos |-> pos, tile |-> get_tile(pos[1], pos[2])]
        /\ UNCHANGED <<units, occupant, terrain, pending_attacks, current, tm_turn_count,
                       turn_count, game_over, winner, turn_limit, pc, last, combat>>

\* board.get_area_tiles(center_x, center_y, 2), the call attack_target makes
GetAreaTiles ==
    \E center \in QueryPositions :
        /\ call.op = "none"
        /\ call' = [op |-> "get_area_tiles", center |-> center,
                    tiles |-> get_area_tiles_list(center[1], center[2], 2)]
        /\ UNCHANGED <<units, occupant, terrain, pending_attacks, current, tm_turn_count,
                       turn_count, game_over, winner, turn_limit, pc, last, combat>>

NextBoard ==
    \/ ConstructBoard
    \/ GetTile
    \/ GetAreaTiles

SpecBoard == Init /\ [][NextBoard]_vars

-----------------------------------------------------------------------------
(* Decoding: decode_action called with any index of the action space, for   *)
(* either player, in matches that have had up to MaxDead casualties          *)

InitDecode ==
    /\ \E dead \in { d \in SUBSET { InitialUnits[i].id : i \in 1 .. Len(InitialUnits) } :
                        Cardinality(d) <= MaxDead } :
          /\ units = Casualties(dead)
          /\ occupant = [t \in Tiles |->
                            IF InitialOccupant[t] \in dead
                            THEN None ELSE InitialOccupant[t]]
    /\ current \in {0, 1}
    /\ Len(my_units(units, current)) > 0
    /\ terrain = Layout(0)
    /\ pending_attacks = [t \in Tiles |-> <<>>]
    /\ tm_turn_count = 0
    /\ turn_count = 0
    /\ game_over = FALSE
    /\ winner = None
    /\ turn_limit = 0
    /\ pc = "act"
    /\ last = NoLast
    /\ combat = NoCombat
    /\ call = NoCall

\* agent.decode_action(action_idx, game_state) for the acting player: the
\* call records the index and the action returned
DecodeCall ==
    \E idx \in ActionSpace :
        /\ call.op = "none"
        /\ decode_action(idx, units, current).type # "raise"
        /\ call' = [op |-> "decode_action", index |-> idx,
                    action |-> decode_action(idx, units, current)]
        /\ UNCHANGED <<units, occupant, terrain, pending_attacks, current, tm_turn_count,
                       turn_count, game_over, winner, turn_limit, pc, last, combat>>

NextDecode == DecodeCall

SpecDecode == InitDecode /\ [][NextDecode]_vars

-----------------------------------------------------------------------------
(* Helpers of the properties *)

Live(u) == u.hp > 0

UnitIds == { units[i].id : i \in 1 .. Len(units) }

\* the tiles that claim unit id as their occupant
TilesOf(id) == { t \in Tiles : occupant[t] = id }

\* the step just taken was decode_action + execute_action
Acted == last.op \in {"ai_turn", "policy"}

\* a move passes move legality: in bounds, unoccupied, within the speed
LegalMove(a) ==
    /\ a.type = "move"
    /\ is_valid_position(a.target[1], a.target[2])
    /\ occupant[a.target] = None
    /\ get_distance(<<UnitOf(units, a.unit).x, UnitOf(units, a.unit).y>>, a.target)
          <= UNIT_STATS[UnitOf(units, a.unit).unit_type].speed

\* an attack aims at a tile within the unit's effective range that holds a
\* live enemy occupant
LegalAttack(a) ==
    /\ a.type = "attack"
    /\ is_valid_position(a.target[1], a.target[2])
    /\ LET u == UnitOf(units, a.unit)
       IN  /\ get_distance(<<u.x, u.y>>, a.target)
                 <= UNIT_STATS[u.unit_type].range
                      + (IF terrain[<<u.x, u.y>>] = HIGH_GROUND THEN 1 ELSE 0)
           /\ occupant[a.target] # None
           /\ Live(UnitOf(units, occupant[a.target]))
           /\ UnitOf(units, occupant[a.target]).owner # u.owner

-----------------------------------------------------------------------------
(* C1 *)

\* C1: in every reachable state every tile's occupant stands on that tile
\* (so no unit is claimed by two tiles), and every live unit is the occupant
\* of exactly one tile, the one at its recorded position.
C1_OccupancyConsistent ==
    /\ \A t \in Tiles :
          occupant[t] # None =>
              /\ occupant[t] \in UnitIds
              /\ UnitOf(units, occupant[t]).x = t[1]
              /\ UnitOf(units, occupant[t]).y = t[2]
    /\ \A i \in 1 .. Len(units) :
          Live(units[i]) =>
              /\ is_valid_position(units[i].x, units[i].y)
              /\ TilesOf(units[i].id) = {<<units[i].x, units[i].y>>}

\* a unit has been destroyed by an attack and, in the step just taken, a
\* unit has moved
C1_Witness ==
    /\ Acted /\ last.type = "move" /\ last.resolved
    /\ \E i \in 1 .. Len(units) : ~Live(units[i])
    /\ UnitOf(units, last.unit).has_moved

-----------------------------------------------------------------------------
(* C2 *)

\* C2: every index get_valid_actions returns for the acting player, when a
\* legal action exists, decodes to a legal move or to a legal attack.
C2_ValidIndicesDecodeLegal ==
    LoopRuns /\ EnumeratedActions(units, occupant, current) # {} =>
        \A idx \in get_valid_actions(units, occupant, current) :
            LET a == decode_action(idx, units, current)
            IN  LegalMove(a) \/ LegalAttack(a)

-----------------------------------------------------------------------------
(* C3 *)

\* C3: the index get_valid_actions emits for a legal move or attack of slot
\* i is decoded by decode_action to the same unit and the same action.
C3_CodecRoundTrip ==
    LoopRuns =>
        LET mu == my_units(units, current)
        IN  \A i \in 0 .. Len(mu) - 1 :
              /\ \A k \in ValidMoves(mu, i, occupant) :
                    decode_action(MoveId(mu, i, k), units, current)
                        = Move(mu[i + 1].id, mu[i + 1].x + MoveOffset(k)[1],
                               mu[i + 1].y + MoveOffset(k)[2])
              /\ \A t \in ValidTargets(units, mu, i, occupant, current) :
                    decode_action(AttackId(mu, i, t[1], t[2]), units, current)
                        = Attack(mu[i + 1].id, t[1], t[2])

-----------------------------------------------------------------------------
(* C4 *)

\* the indices decode_action is probed with: two blocks below zero to two
\* blocks beyond the action space
ProbedIndices == (0 - (2 * actions_per_unit)) .. ((NumSlots + 2) * actions_per_unit)

\* C4: decode_action returns NoOp, and does not raise, for every index that
\* is negative, or beyond the action space, or whose slot is not below the
\* number of live units of the acting player.
C4_OutOfRangeDecodesNoOp ==
    \A idx \in ProbedIndices :
        (\/ idx < 0
         \/ idx >= NumSlots * actions_per_unit
         \/ idx \div actions_per_unit >= Len(my_units(units, current)))
            => decode_action(idx, units, current) = NoOp

-----------------------------------------------------------------------------
(* C5 *)

\* C5: a resolved attack of a MortarSquad (attack delay 1) leaves every
\* unit's hp as it was immediately after the attack call.
C5_MortarDamageDelayed ==
    [][ (/\ last'.op \in {"ai_turn", "policy"}
         /\ last'.type = "attack"
         /\ last'.resolved
         /\ attack_delay(UnitOf(units, last'.unit)) = 1)
            => \A i \in 1 .. Len(units) : units'[i].hp = units[i].hp ]_vars

-----------------------------------------------------------------------------
(* C6 *)

\* C6: a unit with hp 0 is the occupant of no tile (so it blocks no move),
\* is not in the acting player's slot list, and is the occupant of no tile
\* get_valid_actions emits an attack index for.
C6_DeadUnitsDetached ==
    (\E i \in 1 .. Len(units) : units[i].hp = 0) =>
        /\ \A t \in Tiles :
              occupant[t] # None => UnitOf(units, occupant[t]).hp # 0
        /\ LET mu == my_units(units, current)
           IN  \A s \in 0 .. Len(mu) - 1 :
                 /\ mu[s + 1].hp # 0
                 /\ \A t \in ValidTargets(units, mu, s, occupant, current) :
                       UnitOf(units, occupant[t]).hp # 0

\* a live unit stands on the tile a destroyed unit died on
C6_Witness ==
    \E i, j \in 1 .. Len(units) :
        /\ units[i].hp = 0
        /\ Live(units[j])
        /\ units[j].x = units[i].x
        /\ units[j].y = units[i].y

-----------------------------------------------------------------------------
(* C7 *)

\* the effective defense the claim names: base defense, +1 for a
\* SoldierSquad in Trenches, plus the terrain's defense modifier
ClaimedDefense(k, terr) ==
    UNIT_STATS[k].defense
        + (IF k = SOLDIER_SQUAD /\ terr = TRENCHES THEN 1 ELSE 0)
        + TERRAIN_MODIFIERS[terr].defense

Resolved == combat.phase = "resolved"

\* C7 as stated: for every attacker kind, defender kind and terrain, the
\* damage of a combat resolution is max(0, attackPower - effectiveDefense),
\* never negative; SoldierSquad vs Tank on Flat gives 0 and Tank vs
\* SoldierSquad in Trenches gives 2.
C7_DamageAsStated ==
    Resolved =>
        /\ combat.damage
              = Max(0, UNIT_STATS[combat.attacker.unit_type].attack
                          - ClaimedDefense(combat.target.unit_type, combat.terrain))
        /\ combat.damage >= 0
        /\ (combat.attacker.unit_type = SOLDIER_SQUAD /\ combat.target.unit_type = TANK
              /\ combat.terrain = FLAT) => combat.damage = 0
        /\ (combat.attacker.unit_type = TANK /\ combat.target.unit_type = SOLDIER_SQUAD
              /\ combat.terrain = TRENCHES) => combat.damage = 2

\* C7 as amended: the effective defense is one lower still when the
\* defender's tile is LowGround; with that, the damage of every combat
\* resolution is max(0, attackPower - effectiveDefense), never negative, and
\* the two scenarios give 0 and 2.
C7_DamageFormula ==
    Resolved =>
        /\ combat.damage
              = Max(0, UNIT_STATS[combat.attacker.unit_type].attack
                          - (ClaimedDefense(combat.target.unit_type, combat.terrain)
                               - (IF combat.terrain = LOW_GROUND THEN 1 ELSE 0)))
        /\ combat.damage >= 0
        /\ (combat.attacker.unit_type = SOLDIER_SQUAD /\ combat.target.unit_type = TANK
              /\ combat.terrain = FLAT) => combat.damage = 0
        /\ (combat.attacker.unit_type = TANK /\ combat.target.unit_type = SOLDIER_SQUAD
              /\ combat.terrain = TRENCHES) => combat.damage = 2

\* a Tank has attacked a SoldierSquad standing in Trenches and dealt 2
C7_Witness ==
    /\ Resolved
    /\ combat.attacker.unit_type = TANK
    /\ combat.target.unit_type = SOLDIER_SQUAD
    /\ combat.terrain = TRENCHES
    /\ combat.damage = 2
    /\ combat.target.hp = 0

-----------------------------------------------------------------------------
(* C8 *)

\* C8 as stated: the LowGround entry of the terrain table is 0 and, for every
\* attacker and defender kind, damage on LowGround is
\* max(0, attackPower - (baseDefense - 1)).
C8_LowGroundNetOne ==
    (Resolved /\ combat.terrain = LOW_GROUND) =>
        /\ TERRAIN_MODIFIERS[LOW_GROUND].defense = 0
        /\ combat.damage
              = Max(0, UNIT_STATS[combat.attacker.unit_type].attack
                          - (UNIT_STATS[combat.target.unit_type].defense - 1))

\* C8 as amended: the LowGround entry of the terrain table is -1 and the
\* extra LowGround penalty is -1, a net reduction of 2 relative to Flat: for
\* every attacker and defender kind, damage on LowGround is
\* max(0, attackPower - (baseDefense - 2)).
C8_LowGroundNetTwo ==
    (Resolved /\ combat.terrain = LOW_GROUND) =>
        /\ TERRAIN_MODIFIERS[LOW_GROUND].defense = -1
        /\ combat.damage
              = Max(0, UNIT_STATS[combat.attacker.unit_type].attack
                          - (UNIT_STATS[combat.target.unit_type].defense - 2))
        /\ combat.damage
              = calculate_damage(combat.attacker, combat.target, FLAT) + 2

\* a SoldierSquad (attack 1) has attacked a MortarSquad (defense 1, hp 5)
\* standing on LowGround and dealt 2
C8_Witness ==
    /\ Resolved
    /\ combat.terrain = LOW_GROUND
    /\ combat.attacker.unit_type = SOLDIER_SQUAD
    /\ combat.target.unit_type = MORTAR_SQUAD
    /\ combat.damage = 2
    /\ combat.target.hp = 3

-----
(* C9 *)

\* C9: GameManager.turn_count grows by exactly 1 in a turn advance that
\* wraps the current player back to player 0, and is left as it is by every
\* other advance and by every action (reset_game sets it to 0).
C9_TurnCounterPerRotation ==
    [][ IF last'.op = "next_turn"
        THEN turn_count' = turn_count + (IF current = 1 /\ current' = 0 THEN 1 ELSE 0)
        ELSE IF last'.op = "reset"
        THEN turn_count' = 0
        ELSE turn_count' = turn_count ]_vars

\* a full rotation has been played: both players have acted and the advance
\* has wrapped to player 0
C9_Witness ==
    /\ last.op = "next_turn"
    /\ current = 0
    /\ tm_turn_count = 2
    /\ turn_count = 1

-----------------------------------------------------------------------------
(* C10 *)

\* C10: after every turn advance, and whenever a step starts, every live
\* unit has has_moved = FALSE and has_attacked = FALSE.
C10_FlagsClearAfterAdvance ==
    (last.op = "next_turn" \/ LoopRuns) =>
        \A i \in 1 .. Len(units) :
            Live(units[i]) => ~units[i].has_moved /\ ~units[i].has_attacked

\* a turn has been advanced after a unit moved off its deployment tile and
\* after a unit was hit by an attack
C10_Witness ==
    /\ last.op = "next_turn"
    /\ \E i \in 1 .. Len(units) :
          /\ Live(units[i])
          /\ <<units[i].x, units[i].y>> # <<InitialUnits[i].x, InitialUnits[i].y>>
    /\ \E j \in 1 .. Len(units) : units[j].hp < max_hp(units[j])

-----------------------------------------------------------------------------
(* C11 *)

\* the number of units of player p with hp > 0
AliveCount(p) ==
    Cardinality({ i \in 1 .. Len(units) : units[i].owner = p /\ units[i].hp > 0 })

\* C11: when the driving loop evaluates victory, a player without live units
\* loses to the other whatever the turn counter; otherwise at the ceiling the
\* player with more live units wins; otherwise, below the ceiling, no winner
\* is returned and the match continues.
C11_VictoryEvaluation ==
    [][pc = "check" =>
          /\ AliveCount(0) = 0 => (game_over' /\ winner' = 1)
          /\ (AliveCount(0) > 0 /\ AliveCount(1) = 0) => (game_over' /\ winner' = 0)
          /\ (AliveCount(0) > 0 /\ AliveCount(1) > 0 /\ turn_count >= max_turns) =>
                /\ AliveCount(0) > AliveCount(1) => (game_over' /\ winner' = 0)
                /\ AliveCount(1) > AliveCount(0) => (game_over' /\ winner' = 1)
          /\ (AliveCount(0) > 0 /\ AliveCount(1) > 0 /\ turn_count < max_turns) =>
                (~game_over' /\ winner' = None /\ pc' = "act")]_vars

\* the match has ended at the ceiling by the tie-break, both players having
\* live units and player 1 more of them
C11_Witness ==
    /\ game_over /\ winner = 1
    /\ turn_count >= max_turns
    /\ AliveCount(0) > 0
    /\ AliveCount(1) > AliveCount(0)

-----------------------------------------------------------------------------
(* C12 *)

\* C12: when victory is evaluated at the ceiling with equal live-unit counts,
\* the match ends as a draw: it is marked over with no winner, and no turn is
\* advanced.
C12_DrawIsTerminal ==
    [][(/\ pc = "check"
        /\ turn_count >= max_turns
        /\ AliveCount(0) > 0
        /\ AliveCount(0) = AliveCount(1)) =>
          /\ game_over' /\ winner' = None /\ pc' = "over"
          /\ units' = units /\ current' = current /\ turn_count' = turn_count]_vars

-----------------------------------------------------------------------------
(* C14 *)

\* C14: for either player get_valid_actions is never empty; it is {0} exactly
\* when no unit of the player contributes an index, and otherwise it is the
\* set of the enumerated indices.
C14_NeverEmpty ==
    \A p \in {0, 1} :
        LET returned   == get_valid_actions(units, occupant, p)
            enumerated == EnumeratedActions(units, occupant, p)
        IN  /\ returned # {}
            /\ returned = {0} <=> enumerated = {}
            /\ enumerated # {} => returned = enumerated

\* a player has no live unit left, so nothing is enumerated for that player,
\* while the other player has indices enumerated
C14_Witness ==
    \E p \in {0, 1} :
        /\ AliveCount(p) = 0
        /\ get_valid_actions(units, occupant, p) = {0}
        /\ Cardinality(get_valid_actions(units, occupant, 1 - p)) > 1

-----------------------------------------------------------------------------
(* C13 *)

\* the move offsets of unit u that pass move legality
LegalOffsets(u) ==
    { k \in 0 .. 23 :
        can_move_to(u, u.x + MoveOffset(k)[1], u.y + MoveOffset(k)[2], occupant) }

\* the tiles within the effective range of unit u that hold an enemy occupant
LegalTargets(u) ==
    { t \in Tiles :
        /\ get_distance(<<u.x, u.y>>, t) <= attack_range(u, terrain[<<u.x, u.y>>])
        /\ occupant[t] # None
        /\ UnitOf(units, occupant[t]).owner # u.owner }

\* C13: get_valid_actions skips a unit's block only when the unit has moved
\* and has attacked: every live unit of the acting player that has not done
\* both contributes all its legal move offsets and all its legal targets.
C13_SkipsOnlyWhenBoth ==
    LET mu == my_units(units, current)
    IN  \A s \in 0 .. Len(mu) - 1 :
            ~(mu[s + 1].has_moved /\ mu[s + 1].has_attacked) =>
                /\ ValidMoves(mu, s, occupant) = LegalOffsets(mu[s + 1])
                /\ ValidTargets(units, mu, s, occupant, current) = LegalTargets(mu[s + 1])

-----------------------------------------------------------------------------
(* C15 *)

\* C15: for every live unit of the acting player and every position of the
\* 7x7 window around it, can_move_to holds exactly when the position is in
\* bounds, unoccupied and at Manhattan distance <= 1 (the move speed of every
\* kind); and every move offset get_valid_actions appends is at distance 1.
C15_MoveLegality ==
    LET mu == my_units(units, current)
    IN  \A s \in 0 .. Len(mu) - 1 :
            LET u == mu[s + 1]
            IN  /\ UNIT_STATS[u.unit_type].speed = 1
                /\ \A dx \in -3 .. 3, dy \in -3 .. 3 :
                       can_move_to(u, u.x + dx, u.y + dy, occupant)
                          <=> /\ 0 <= u.x + dx /\ u.x + dx < BoardW
                              /\ 0 <= u.y + dy /\ u.y + dy < BoardH
                              /\ occupant[<<u.x + dx, u.y + dy>>] = None
                              /\ Abs(dx) + Abs(dy) <= 1
                /\ \A k \in ValidMoves(mu, s, occupant) :
                       Abs(MoveOffset(k)[1]) + Abs(MoveOffset(k)[2]) = 1

\* a live unit of the acting player stands at the board's edge, next to an
\* occupied tile and next to the emptied tile of a destroyed unit, and has a
\* move enumerated
C15_Witness ==
    LET mu == my_units(units, current)
    IN  \E s \in 0 .. Len(mu) - 1 :
           /\ mu[s + 1].x = 0 \/ mu[s + 1].y = 0
           /\ \E t \in Tiles : /\ get_distance(<<mu[s + 1].x, mu[s + 1].y>>, t) = 1
                                /\ occupant[t] # None
           /\ \E j \in 1 .. Len(units) :
                 /\ units[j].hp = 0
                 /\ get_distance(<<mu[s + 1].x, mu[s + 1].y>>, <<units[j].x, units[j].y>>) = 1
                 /\ occupant[<<units[j].x, units[j].y>>] = None
           /\ ValidMoves(mu, s, occupant) # {}

-----------------------------------------------------------------------------
(* C16 *)

\* C16: a legal move of unit u from tile s to tile d empties s, makes u the
\* occupant of d, sets u's position to d and u.has_moved, and changes no
\* other occupant, no other unit, no hp, not u.has_attacked, not the terrain,
\* the current player or the turn counter.
C16_MoveFrame ==
    [][(last'.op \in {"ai_turn", "policy"} /\ last'.type = "move" /\ last'.resolved) =>
          LET id == last'.unit
              s  == <<UnitOf(units, id).x, UnitOf(units, id).y>>
              d  == <<UnitOf(units', id).x, UnitOf(units', id).y>>
          IN  /\ d \in Tiles /\ d # s
              /\ occupant[s] = id /\ occupant[d] = None
              /\ occupant' = [occupant EXCEPT ![s] = None, ![d] = id]
              /\ units' = [units EXCEPT ![id + 1] =
                              [@ EXCEPT !.x = d[1], !.y = d[2], !.has_moved = TRUE]]
              /\ terrain' = terrain
              /\ current' = current
              /\ turn_count' = turn_count
              /\ tm_turn_count' = tm_turn_count]_vars

\* player 1 has moved a unit after one of its units was hit
C16_Witness ==
    /\ Acted /\ last.type = "move" /\ last.resolved
    /\ current = 1
    /\ UnitOf(units, last.unit).owner = 1
    /\ \E j \in 1 .. Len(units) :
          units[j].owner = 1 /\ units[j].hp < max_hp(units[j])

-----------------------------------------------------------------------------
(* C17 *)

\* the step is a direct call of the named operation
Called(op, type) == call.op = "none" /\ call'.op = op /\ call'.type = type

\* C17: a move whose target fails move legality changes no occupant and no
\* unit, whether it is asked of execute_action or of the unit's move_to.
C17_IllegalMoveIsNoOp ==
    [][((Called("execute_action", "move") \/ Called("move_to", "move"))
          /\ ~can_move_to(UnitOf(units, call'.unit), call'.target[1], call'.target[2],
                          occupant)) =>
          (units' = units /\ occupant' = occupant)]_vars

-----------------------------------------------------------------------------
(* C18 *)

\* the attacker of the call has not attacked this turn and the target is
\* within its base range, one more when its own tile is HighGround
AttackInReach(u, t) ==
    /\ ~u.has_attacked
    /\ Abs(u.x - t[1]) + Abs(u.y - t[2])
          <= UNIT_STATS[u.unit_type].range
               + (IF terrain[<<u.x, u.y>>] = HIGH_GROUND THEN 1 ELSE 0)

\* C18: execute_action resolves an attack exactly when the attacker has not
\* attacked this turn and the target is within its effective range, computed
\* from the attacker's own tile; otherwise no unit and no occupant changes
\* and the reward is 0.
C18_AttackResolvedIff ==
    [][Called("execute_action", "attack") =>
          LET u == UnitOf(units, call'.unit)
          IN  /\ call'.resolved <=> AttackInReach(u, call'.target)
              /\ AttackInReach(u, call'.target) =>
                     UnitOf(units', call'.unit).has_attacked
              /\ ~AttackInReach(u, call'.target) =>
                     (units' = units /\ occupant' = occupant /\ call'.reward = 0)]_vars

\* a SoldierSquad standing on HighGround has attacked a tile at distance 3,
\* one beyond its base range, whose own terrain is not HighGround
C18_Witness ==
    /\ call.op = "execute_action" /\ call.type = "attack" /\ call.resolved
    /\ LET u == UnitOf(units, call.unit)
       IN  /\ u.unit_type = SOLDIER_SQUAD
           /\ terrain[<<u.x, u.y>>] = HIGH_GROUND
           /\ call.target \in Tiles
           /\ terrain[call.target] # HIGH_GROUND
           /\ get_distance(<<u.x, u.y>>, call.target) = 3

-----------------------------------------------------------------------------
(* C19 *)

\* tile t holds a live occupant that is not of owner p
HoldsLiveEnemy(t, p) ==
    /\ t \in Tiles
    /\ occupant[t] # None
    /\ UnitOf(units, occupant[t]).hp > 0
    /\ UnitOf(units, occupant[t]).owner # p

\* C19: an attack on a tile that holds no live enemy occupant is rejected: no
\* unit's hp or flag and no tile's occupant changes.
C19_NoEnemyAttackRejected ==
    [][(Called("execute_action", "attack")
          /\ ~HoldsLiveEnemy(call'.target, UnitOf(units, call'.unit).owner)) =>
          (units' = units /\ occupant' = occupant)]_vars

-----------------------------------------------------------------------------
(* C20 *)

\* unit v is hit by an attack of unit a on tile t: a live unit of the other
\* owner, inside the 3x3 window around t for an area-effect attacker and on
\* t itself for a single-target one
Hit(a, v, t) ==
    /\ v.hp > 0
    /\ v.owner # a.owner
    /\ IF UNIT_STATS[a.unit_type].aoe
       THEN Abs(v.x - t[1]) <= 1 /\ Abs(v.y - t[2]) <= 1
       ELSE <<v.x, v.y>> = t

-----------------------------------------------------------------------------
(* C21 *)

\* C21: in every reachable state every unit has 0 <= hp <= the max hp of its
\* kind, and no tile is occupied by a unit of hp 0: a unit whose hp reached 0
\* in an attack has left its tile when the attack step ends.
C21_HpBoundedAndDeadCleared ==
    /\ \A i \in 1 .. Len(units) :
          0 <= units[i].hp /\ units[i].hp <= UNIT_STATS[units[i].unit_type].hp
    /\ \A t \in Tiles :
          occupant[t] # None => UnitOf(units, occupant[t]).hp > 0
    /\ \A i \in 1 .. Len(units) :
          units[i].hp = 0 =>
              (is_valid_position(units[i].x, units[i].y)
                  => occupant[<<units[i].x, units[i].y>>] # units[i].id)

\* the attack just resolved has destroyed one unit, whose tile is now empty,
\* and has left another one damaged but alive
C21_Witness ==
    /\ Acted /\ last.type = "attack" /\ last.resolved
    /\ \E r \in last.damage_results :
          /\ occupant[<<r[1], r[2]>>] = None
          /\ \E i \in 1 .. Len(units) :
                units[i].hp = 0 /\ units[i].x = r[1] /\ units[i].y = r[2]
    /\ \E j \in 1 .. Len(units) :
          0 < units[j].hp /\ units[j].hp < max_hp(units[j])

-----------------------------------------------------------------------------
(* C22 *)

\* C22: within one match (every step but reset_game, which starts the next
\* one) the unit collection keeps its length and every unit its index, id,
\* kind and owner; and a unit whose hp is 0 keeps its hp, its position and
\* both per-turn flags.
C22_UnitsStableDeadInert ==
    [][last'.op # "reset" =>
          /\ Len(units') = Len(units)
          /\ \A i \in 1 .. Len(units) :
                /\ units'[i].id = units[i].id /\ units[i].id = i - 1
                /\ units'[i].unit_type = units[i].unit_type
                /\ units'[i].owner = units[i].owner
                /\ units[i].hp = 0 =>
                      /\ units'[i].hp = 0
                      /\ units'[i].x = units[i].x /\ units'[i].y = units[i].y
                      /\ units'[i].has_moved = units[i].has_moved
                      /\ units'[i].has_attacked = units[i].has_attacked]_vars

\* the owner of a destroyed unit has acted, and resolved its action, after a
\* turn advance that followed the unit's destruction
C22_Witness ==
    /\ Acted /\ last.resolved
    /\ tm_turn_count >= 1
    /\ \E i \in 1 .. Len(units) :
          /\ units[i].hp = 0
          /\ units[i].owner = current
          /\ units[i].id # last.unit

-----------------------------------------------------------------------------
(* C23 *)

\* C23: a resolved attack that deals damage d > 0 to the live enemy on its
\* target tile is rewarded 20 * d, a positive reward that grows with d, and
\* 100 more when the attack reduces that enemy's hp to 0, so that a kill is
\* rewarded more than damage d without a kill.
C23_AttackRewardWithKillBonus ==
    [][(/\ Called("execute_action", "attack")
        /\ call'.resolved
        /\ HoldsLiveEnemy(call'.target, UnitOf(units, call'.unit).owner)) =>
          LET enemy == UnitOf(units, occupant[call'.target])
              d     == calculate_damage(UnitOf(units, call'.unit), enemy,
                                        terrain[call'.target])
              kill  == UnitOf(units', enemy.id).hp = 0
          IN  d > 0 =>
                /\ call'.reward > 0
                /\ call'.reward >= 20 * d
                /\ kill => call'.reward >= (20 * d) + 100
                /\ ~kill => call'.reward < (20 * d) + 100]_vars

-----------------------------------------------------------------------------
(* C24 *)

\* a live unit that is not of owner p stands at Manhattan distance < 5 of pos
EnemyNear(pos, p) ==
    \E i \in 1 .. Len(units) :
        /\ units[i].owner # p
        /\ units[i].hp > 0
        /\ get_distance(pos, <<units[i].x, units[i].y>>) < 5

\* what a move earns on Flat or LowGround: the positioning reward, and the
\* bonus for ending close to an enemy
PlainMoveReward(pos, p) == 2 + (IF EnemyNear(pos, p) THEN 10 ELSE 0)

\* C24: the reward of an executed legal move is strictly positive: it is the
\* reward of the same move onto Flat or LowGround, plus 8 when the destination
\* is HighGround and 5 when it is Trenches; and every step that changes no
\* unit and no occupant (NoOp, rejected move, rejected attack) is rewarded 0.
C24_MoveReward ==
    [][/\ (Called("execute_action", "move") /\ call'.resolved) =>
             LET plain == PlainMoveReward(call'.target, UnitOf(units, call'.unit).owner)
                 terr  == terrain[call'.target]
             IN  /\ plain > 0
                 /\ call'.reward > 0
                 /\ terr \in {FLAT, LOW_GROUND} => call'.reward = plain
                 /\ terr = HIGH_GROUND => call'.reward = plain + 8
                 /\ terr = TRENCHES => call'.reward = plain + 5
       /\ (call.op = "none" /\ call'.op = "execute_action"
              /\ units' = units /\ occupant' = occupant) =>
             (~call'.resolved /\ call'.reward = 0)
       /\ (last'.op = "policy" /\ last.op # "policy"
              /\ units' = units /\ occupant' = occupant) =>
             (~last'.resolved /\ last'.reward = 0)
       /\ (last'.op = "policy" /\ last.op # "policy" /\ last'.type = "noop") =>
             (units' = units /\ occupant' = occupant /\ last'.reward = 0)]_vars

\* a unit has moved onto HighGround with no live enemy within distance 4 of
\* the destination, and was rewarded 10
C24_Witness ==
    /\ call.op = "execute_action" /\ call.type = "move" /\ call.resolved
    /\ terrain[call.target] = HIGH_GROUND
    /\ ~EnemyNear(call.target, UnitOf(units, call.unit).owner)
    /\ call.reward = 10

-----------------------------------------------------------------------------
(* C25 *)

\* the tiles of the deployment table of setup_initial_units
DeploymentTiles ==
    { <<player0_units[i][2], player0_units[i][3]>> : i \in 1 .. Len(player0_units) }
        \cup { <<player1_units[i][2], player1_units[i][3]>> : i \in 1 .. Len(player1_units) }

\* C25: after reset_game, called in any state of a match, a finished one
\* included, the match is a freshly deployed one: the 10 units of the
\* deployment table, alive at full hp on their deployment tiles with both
\* flags false, exactly those 10 tiles occupied, each by its unit, nothing
\* pending on any tile, turn counters 0, current player 0, not over, no winner.
C25_ResetRebuilds ==
    [][(call.op = "none" /\ call'.op = "reset_game") =>
          /\ Len(units') = 10
          /\ \A i \in 1 .. 10 :
                LET e == IF i <= 5 THEN player0_units[i] ELSE player1_units[i - 5]
                IN  /\ units'[i].id = i - 1
                    /\ units'[i].owner = (IF i <= 5 THEN 0 ELSE 1)
                    /\ units'[i].unit_type = e[1]
                    /\ units'[i].x = e[2] /\ units'[i].y = e[3]
                    /\ units'[i].hp = UNIT_STATS[e[1]].hp
                    /\ ~units'[i].has_moved /\ ~units'[i].has_attacked
                    /\ occupant'[<<e[2], e[3]>>] = i - 1
          /\ Cardinality(DeploymentTiles) = 10
          /\ { t \in Tiles : occupant'[t] # None } = DeploymentTiles
          /\ \A t \in Tiles : pending_attacks'[t] = <<>>
          /\ turn_count' = 0 /\ tm_turn_count' = 0 /\ current' = 0
          /\ ~game_over' /\ winner' = None]_vars

\* reset_game has been called on a match that player 0 had been declared to
\* have won by destroying every unit of player 1
C25_Witness ==
    /\ call.op = "reset_game"
    /\ last.op = "winner"
    /\ pc = "over"
    /\ units = InitialUnits
    /\ ~game_over

-----------------------------------------------------------------------------
(* C26 *)

\* C26: in the driving loop every action is followed by the evaluation of
\* victory, and the turn is advanced only from that evaluation and only when
\* it names no winner; when it names one the match is marked over with that
\* winner, and from then on units, board, current player and turn counters
\* stay as they are until reset_game.
C26_WinnerIsAbsorbing ==
    [][/\ last'.op \in {"ai_turn", "policy"} => pc' = "check"
       /\ last'.op = "next_turn" =>
             (pc = "check" /\ Acted /\ check_victory_conditions(units, turn_count) = None)
       /\ (pc = "check" /\ check_victory_conditions(units, turn_count) # None) =>
             /\ last'.op = "winner"
             /\ game_over' /\ winner' = check_victory_conditions(units, turn_count)
             /\ units' = units /\ current' = current
             /\ turn_count' = turn_count /\ tm_turn_count' = tm_turn_count
       /\ winner # None =>
             \/ last'.op = "reset"
             \/ /\ units' = units /\ occupant' = occupant /\ terrain' = terrain
                /\ current' = current
                /\ turn_count' = turn_count /\ tm_turn_count' = tm_turn_count
                /\ game_over' /\ winner' = winner]_vars

\* the loop has declared player 0 the winner in player 0's own turn, every
\* unit of player 1 being destroyed, and the turn was not advanced
C26_Witness ==
    /\ last.op = "winner" /\ pc = "over"
    /\ game_over /\ winner = 0
    /\ AliveCount(1) = 0
    /\ current = 0 /\ tm_turn_count = 0

-----------------------------------------------------------------------------
(* C27 *)

\* the decoded action is a move to a position off the board
MoveOffBoard(a) == a.type = "move" /\ ~is_valid_position(a.target[1], a.target[2])

\* the decoded action is an attack on a tile without an occupant
AttackOnEmpty(a) ==
    /\ a.type = "attack"
    /\ is_valid_position(a.target[1], a.target[2])
    /\ occupant[a.target] = None

\* C27: whenever the driving loop is about to take a step, every index
\* get_valid_actions returns for the acting player decodes, without raising,
\* to an action of type move, attack or noop, and execute_action runs on it
\* without raising; a move to a position off the board is rejected (nothing
\* changes, reward 0) and an attack on an empty tile in range is executed.
C27_StepNeverRaises ==
    LoopRuns =>
        LET returned == get_valid_actions(units, occupant, current)
        IN  \A idx \in returned :
                LET a == decode_action(idx, units, current)
                IN  /\ a.type \in {"move", "attack", "noop"}
                    /\ ~execute_action_raises(a, units)
                    /\ MoveOffBoard(a) =>
                          LET r == execute_action(a, units, occupant, current)
                          IN  ~r.resolved /\ r.units = units /\ r.occupant = occupant
                                /\ r.reward = 0
                    /\ AttackOnEmpty(a) =>
                          execute_action(a, units, occupant, current).resolved
                             = attack_allowed(units, a)

\* the loop is about to take a step in which one returned index decodes to a
\* move off the board, another to an attack on an empty tile and another to
\* a noop
C27_Witness ==
    /\ LoopRuns
    /\ LET returned == get_valid_actions(units, occupant, current)
       IN  /\ \E idx \in returned : MoveOffBoard(decode_action(idx, units, current))
           /\ \E idx \in returned : AttackOnEmpty(decode_action(idx, units, current))
           /\ \E idx \in returned : decode_action(idx, units, current).type = "noop"

-----------------------------------------------------------------------------
(* C28 *)

\* C28: constructing a board with a non-positive width or height fails: the
\* constructor raises, and no board of width <= 0 or height <= 0 is returned.
C28_NonPositiveBoardRejected ==
    call.op = "Board" =>
        /\ (call.board.width <= 0 \/ call.board.height <= 0) <=> call.board.raised
        /\ ~call.board.raised => (call.board.width > 0 /\ call.board.height > 0)

-----------------------------------------------------------------------------
(* C29 *)

\* the ids of the live units of the acting player
LiveIds == { units[i].id : i \in { j \in 1 .. Len(units) :
                                     units[j].owner = current /\ units[j].hp > 0 } }

\* the position of offset d among the non-center offsets of the 5x5 window
\* enumerated with dx outer and dy inner
OffsetRank(d) ==
    Cardinality({ e \in ((-2 .. 2) \X (-2 .. 2)) \ {<<0, 0>>} :
                    e[1] < d[1] \/ (e[1] = d[1] /\ e[2] < d[2]) })

\* C29: with B = 25 + width * height, decode_action reads index k as slot
\* k div B of the acting player's live units in creation order and local
\* action k mod B: local 0..23 is a move of that unit by the non-center
\* offset of the 5x5 window of that rank (dx outer, dy inner), local 24 is
\* NoOp, and local 25 + y * width + x is an attack of that unit on the
\* in-bounds tile (x, y).
C29_DecodeLayout ==
    call.op = "decode_action" =>
        LET B     == 25 + (BoardW * BoardH)
            slot  == call.index \div B
            local == call.index % B
            a     == call.action
        IN  slot < Cardinality(LiveIds) =>
                LET id == CHOOSE j \in LiveIds :
                              Cardinality({ m \in LiveIds : m < j }) = slot
                    u  == UnitOf(units, id)
                IN  /\ local < 24 =>
                          /\ a.type = "move" /\ a.unit = id
                          /\ LET d == <<a.target[1] - u.x, a.target[2] - u.y>>
                             IN  /\ d \in ((-2 .. 2) \X (-2 .. 2)) \ {<<0, 0>>}
                                 /\ OffsetRank(d) = local
                    /\ local = 24 => a.type = "noop"
                    /\ local >= 25 =>
                          /\ a.type = "attack" /\ a.unit = id
                          /\ a.target \in Tiles
                          /\ local = 25 + (a.target[2] * BoardW) + a.target[1]

\* an index of a slot whose unit is not the unit of that creation rank (a
\* unit created before it is destroyed) has been decoded to an attack on a
\* tile whose row-major and column-major numbers differ
C29_Witness ==
    /\ call.op = "decode_action"
    /\ call.action.type = "attack"
    /\ call.index \div (25 + (BoardW * BoardH)) >= 1
    /\ \E i \in 1 .. Len(units) :
          /\ units[i].owner = current /\ units[i].hp = 0
          /\ units[i].id < call.action.unit
    /\ (call.action.target[2] * BoardW) + call.action.target[1]
          # (call.action.target[1] * BoardH) + call.action.target[2]

-----------------------------------------------------------------------------
(* C30 *)

\* C30: every index get_valid_actions returns for the acting player lies in
\* [0, 5 * (25 + width * height)), the size of the action space the policy's
\* output is indexed by (2125 on the 20x20 board).
C30_IndicesWithinActionSpace ==
    \A idx \in get_valid_actions(units, occupant, current) :
        0 <= idx /\ idx < NumSlots * (25 + (BoardW * BoardH))

\* the acting player has five live units and an index of the fifth slot's
\* block of the policy's output is returned
C30_Witness ==
    /\ AliveCount(current) = NumSlots
    /\ \E idx \in get_valid_actions(units, occupant, current) :
          idx >= (NumSlots - 1) * (25 + (BoardW * BoardH))

-----------------------------------------------------------------------------
(* C31 *)

\* C31: for an acting player with a live unit, index 0 decodes to a move of
\* slot 0 (the first live unit in creation order) by offset (-2, -2), at
\* Manhattan distance 4, beyond the speed of every kind; get_valid_actions
\* never enumerates index 0, and index 0 decoded and executed changes no unit
\* and no occupant and is rewarded 0.
C31_IndexZeroIsInert ==
    LiveIds # {} =>
        LET first == CHOOSE j \in LiveIds : \A m \in LiveIds : j <= m
            u     == UnitOf(units, first)
            a     == decode_action(0, units, current)
            r     == execute_action(a, units, occupant, current)
        IN  /\ a.type = "move" /\ a.unit = first
            /\ a.target = <<u.x - 2, u.y - 2>>
            /\ get_distance(<<u.x, u.y>>, a.target) = 4
            /\ \A k \in UnitType : UNIT_STATS[k].speed < 4
            /\ 0 \notin EnumeratedActions(units, occupant, current)
            /\ ~r.resolved /\ r.reward = 0
            /\ r.units = units /\ r.occupant = occupant

\* the tile at offset (-2, -2) of the acting player's slot 0 is on the board
\* and unoccupied: only the distance keeps the move from being legal; and
\* slot 0 is not the player's first unit, which is destroyed
C31_Witness ==
    /\ LiveIds # {}
    /\ LET first == CHOOSE j \in LiveIds : \A m \in LiveIds : j <= m
           u     == UnitOf(units, first)
       IN  /\ is_valid_position(u.x - 2, u.y - 2)
           /\ occupant[<<u.x - 2, u.y - 2>>] = None
           /\ \E i \in 1 .. Len(units) :
                 units[i].owner = current /\ units[i].hp = 0 /\ units[i].id < first

-----------------------------------------------------------------------------
(* C32 *)

-----------------------------------------------------------------------------
(* C33 *)

\* C33: along every sequence of next_turn calls from match start the current
\* player alternates 0, 1, 0, 1, ..., each call adding one to
\* TurnManager.turn_count, and in every state
\* TurnManager.current = TurnManager.turn_count mod 2 and
\* GameManager.turn_count = TurnManager.turn_count div 2.
C33_PlayersAlternate ==
    [][/\ last'.op = "next_turn" =>
             /\ current' = 1 - current
             /\ tm_turn_count' = tm_turn_count + 1
       /\ current = tm_turn_count % 2 /\ current' = tm_turn_count' % 2
       /\ turn_count = tm_turn_count \div 2
       /\ turn_count' = tm_turn_count' \div 2]_vars

\* the driving loop has stopped after two advances, the second one having
\* wrapped back to player 0
C33_Witness ==
    /\ last.op = "turn_limit" /\ pc = "over"
    /\ tm_turn_count = 2
    /\ current = 0
    /\ turn_count = 1

-----------------------------------------------------------------------------
(* C34 *)

\* C34: in every step driven by ai_turn, a unit whose position, has_moved
\* or has_attacked changes is a live unit of the current player, and a unit
\* whose hp changes belongs to the other player: no step moves an enemy unit
\* or a dead unit, or marks one as having acted.
C34_OnlyOwnLiveUnitsAct ==
    [][last'.op \in {"ai_turn", "policy"} =>
          /\ Len(units') = Len(units)
          /\ \A i \in 1 .. Len(units) :
                LET u == units[i]
                    v == units'[i]
                IN  /\ v.id = u.id /\ v.owner = u.owner
                    /\ (\/ v.x # u.x \/ v.y # u.y
                        \/ v.has_moved # u.has_moved
                        \/ v.has_attacked # u.has_attacked) =>
                           (u.hp > 0 /\ u.owner = current)
                    /\ v.hp # u.hp => u.owner = 1 - current]_vars

\* player 1, with a unit already destroyed, has just attacked and damaged a
\* unit of player 0
C34_Witness ==
    /\ Acted /\ current = 1
    /\ last.type = "attack" /\ last.resolved
    /\ last.damage_results # {}
    /\ \E i \in 1 .. Len(units) : units[i].owner = 1 /\ units[i].hp <= 0
    /\ \E i \in 1 .. Len(units) :
          /\ units[i].owner = 0
          /\ 0 < units[i].hp /\ units[i].hp < UNIT_STATS[units[i].unit_type].hp

-----------------------------------------------------------------------------
(* C35 *)

\* C35: in every reachable state at least one player has a live unit, and
\* when check_victory_conditions first reports an elimination winner after
\* a step, that winner is the player who acted in the step: the side
\* without live units is the other one.
C35_EliminationWinnerActed ==
    /\ AliveCount(0) > 0 \/ AliveCount(1) > 0
    /\ (pc = "check" /\ (AliveCount(0) = 0 \/ AliveCount(1) = 0)) =>
          /\ Acted
          /\ AliveCount(1 - current) = 0
          /\ AliveCount(current) > 0
    /\ (last.op = "winner" /\ turn_count < max_turns) =>
          /\ winner = current
          /\ AliveCount(1 - winner) = 0
          /\ AliveCount(winner) > 0

\* the acting player has just destroyed the last units of the other one,
\* and check_victory_conditions, about to be evaluated, names the actor
C35_Witness ==
    /\ Acted /\ pc = "check"
    /\ last.type = "attack" /\ last.damage_results # {}
    /\ AliveCount(1 - current) = 0
    /\ AliveCount(current) > 0
    /\ check_victory_conditions(units, turn_count) = current

-----------------------------------------------------------------------------
(* C36 *)

\* C36: within one match no unit's hp ever increases: across every step and
\* every turn advance each unit's hp is at most its previous value, so each
\* player's count of live units does not grow until reset_game.
C36_HpNeverIncreases ==
    [][last'.op # "reset" =>
          /\ Len(units') = Len(units)
          /\ \A i \in 1 .. Len(units) : units'[i].hp <= units[i].hp
          /\ \A p \in {0, 1} : AliveCount(p)' <= AliveCount(p)]_vars

\* the turn has advanced over a match with a wounded survivor and a
\* destroyed unit
C36_Witness ==
    /\ last.op = "next_turn"
    /\ \E i \in 1 .. Len(units) :
          0 < units[i].hp /\ units[i].hp < UNIT_STATS[units[i].unit_type].hp
    /\ \E i \in 1 .. Len(units) : units[i].hp <= 0

-----------------------------------------------------------------------------
(* C37 *)

\* the cap of run_ai_game's while loop, of which TurnLimit is the scaled
\* value
loop_limit == 100

\* C37: every game played by run_ai_game terminates after at most the
\* loop's cap of turn advances (100, here TurnLimit), whatever indices the
\* policy chooses; within a game GameManager.turn_count never exceeds half
\* the cap (50, below max_turns = 200), so the ceiling branch of
\* check_victory_conditions is never taken and a winner is only ever
\* produced by elimination.  Until the game is over the loop always has a
\* step to take, and it leads to the end of the game.
C37_GameTerminates ==
    /\ [](/\ turn_limit <= TurnLimit
          /\ tm_turn_count <= TurnLimit
          /\ turn_count <= TurnLimit \div 2
          /\ loop_limit \div 2 = 50 /\ loop_limit \div 2 < max_turns
          /\ turn_count < max_turns
          /\ winner # None => (game_over /\ AliveCount(1 - winner) = 0)
          /\ pc # "over" =>
                ENABLED (PolicyTurn \/ DeclareWinner \/ NextTurn \/ TurnLimitReached))
    /\ (pc # "over") ~> (pc = "over")

\* a game has been stopped by the cap, without a winner, both sides alive
C37_Witness ==
    /\ pc = "over" /\ game_over
    /\ turn_limit = TurnLimit
    /\ winner = None
    /\ AliveCount(0) > 0 /\ AliveCount(1) > 0

====
